---------------------------- MODULE Spec2Model ----------------------------
(***************************************************************************)
(* Model of the Canadian patent ingestion pipeline (pull_patents.py) and   *)
(* of the web application's download control (app.py).                     *)
(*                                                                         *)
(*  - the normalized store: the seven patent tables and the save_* calls;  *)
(*  - the content cache: the file_cache table and the cache directory;     *)
(*  - the orchestrator: fetch_all_patent_data, download_and_extract_zip    *)
(*    and download_and_parse_resource, stepped resource by resource and    *)
(*    inner file by inner file, with the process being killed at any step; *)
(*  - the web layer: start_download and download_patents_background.       *)
(***************************************************************************)
EXTENDS Naturals, Integers, Sequences, FiniteSets, TLC

VARIABLES
    db,              \* the SQLite tables: table name -> sequence of rows (rowid order)
    db_lock,         \* TRUE while an unclosed connection holds the write lock
    file_cache,      \* table file_cache: url -> NoRow or [local_path, processed]
    disk,            \* cache directory: local path -> the bytes it holds, or NoFile
    cacheCall,       \* the last cache_file / mark_file_processed call of the cache calls
    schema,          \* who created the database file: "fetcher" or "app"
    catalog,         \* resource descriptors the catalog API returns
    archive,         \* inner files of the ZIP archive served at ZipUrl
    pc,              \* position of the ingestion run
    ri,              \* index of the current resource in the catalog
    fi,              \* index of the current inner file of the ZIP
    patents,         \* number of legacy records collected by download_and_extract_zip
    total_patents,   \* fetch_all_patent_data's running total
    runNo,           \* number of runs started
    downloads,       \* url -> number of completed network downloads
    runlog,          \* per run: what happened to each resource reached
    payload,         \* the last flat payload downloaded: its length, and stripped
    sinceFetch,      \* a download completed and time.sleep has not run since
    lastCall,        \* the last save call: how it ended, rows executed before that
    calls,           \* number of save calls made so far
    expected,        \* the tables as all-or-nothing batches would have left them
    lastTitle,       \* patent number -> title of the last committed PT_main record
    download_status, \* app.py's global status dictionary
    threads,         \* background worker threads: sequence of thread positions
    responses        \* answers given to the start requests, in order

vars == << db, db_lock, file_cache, disk, cacheCall, schema, catalog, archive, pc, ri, fi,
           patents, total_patents, runNo, downloads, runlog, payload, sinceFetch,
           lastCall, calls, expected, lastTitle, download_status, threads, responses >>

storeVars == << db, db_lock, lastCall, calls, expected, lastTitle >>
cacheVars == << file_cache, disk, cacheCall >>
envVars   == << schema, catalog, archive >>
runVars   == << pc, ri, fi, patents, total_patents, runNo, downloads, runlog,
               payload, sinceFetch >>
appVars   == << download_status, threads, responses >>

---------------------------------------------------------------------------
(* Bounds *)

MaxBatch == 2      \* longest batch handed to a save call in the store specification
MaxCalls == 2      \* number of save calls in the store specification
MaxInner == 2      \* number of inner files of the ZIP archive
MaxResources == 2  \* number of resources in the catalog
MaxRuns == 2       \* number of ingestion runs
MaxRequests == 3   \* number of startIngestion requests

---------------------------------------------------------------------------
(* Values *)

NULL == "NULL"     \* Python None / SQL NULL: the label is absent from the row

PatentNumbers == {"CA1234567", "CA7654321"}
Texts == {"t1", "t2"}

\* A RawRecord as csv.DictReader yields it, reduced to the three labels the
\* tables are keyed and compared on: the patent number, the sequence number
\* and one text column (the English title for PT_main).
RawRecords == [pn : PatentNumbers \cup {NULL}, seq : {"1"}, val : Texts]

Raw(p, s, v) == [pn |-> p, seq |-> s, val |-> v]

MainTable == "patents_main"
ChildTables == {"patent_abstracts", "patent_claims", "patent_disclosures",
                "patent_interested_parties", "patent_ipc_classifications",
                "patent_priority_claims"}
PatentTables == {MainTable} \cup ChildTables

\* Tables the CREATE TABLE statements of either schema create (the legacy
\* table "patents" is created by neither).
SchemaTables == PatentTables \cup {"datasets", "file_cache"}

EmptyDb == [t \in PatentTables |-> << >>]

---------------------------------------------------------------------------
(* Normalized store *)

RECURSIVE SeqFilterOut(_, _)
\* rows of s whose patent_number differs from p, order kept
SeqFilterOut(s, p) ==
    IF s = << >> THEN << >>
    ELSE IF Head(s).patent_number = p THEN SeqFilterOut(Tail(s), p)
         ELSE << Head(s) >> \o SeqFilterOut(Tail(s), p)

\* INSERT without uniqueness handling
PlainInsertMain(rows, r) ==
    Append(rows, [patent_number |-> r.pn, title_english |-> r.val])

\* INSERT OR REPLACE INTO patents_main: patent_number TEXT PRIMARY KEY.  A row
\* with the same non-null key is deleted first; NULL keys never conflict.
InsertOrReplaceMain(rows, r) ==
    IF r.pn = NULL
    THEN Append(rows, [patent_number |-> r.pn, title_english |-> r.val])
    ELSE Append(SeqFilterOut(rows, r.pn),
                [patent_number |-> r.pn, title_english |-> r.val])

\* a save that rewrites the table with the incoming row
ReplaceChildTable(rows, r) ==
    << [patent_number |-> r.pn, sequence_number |-> r.seq, text |-> r.val] >>

\* INSERT OR REPLACE INTO a child table: the only key is the AUTOINCREMENT id,
\* which the statement never supplies, so nothing is ever replaced.
InsertOrReplaceChild(rows, r) ==
    Append(rows, [patent_number |-> r.pn, sequence_number |-> r.seq, text |-> r.val])

\* patent_number TEXT NOT NULL on the six child tables; patents_main has no
\* NOT NULL on its TEXT PRIMARY KEY.
ViolatesNotNull(table, r) == table \in ChildTables /\ r.pn = NULL

RECURSIVE ExecuteRows(_, _, _, _, _)
\* The "for record in data: cursor.execute(...)" loop inside the open
\* transaction.  failAt = i makes the i-th execute raise (disk or I/O error),
\* failAt = Len(data) + 1 makes commit raise, failAt = 0 injects no error.
\* Result: [ok, rows] where rows is the transaction's view of the table.
ExecuteRows(rows, table, data, i, failAt) ==
    IF i > Len(data) THEN [ok |-> failAt # Len(data) + 1, rows |-> rows]
    ELSE IF failAt = i \/ ViolatesNotNull(table, data[i])
         THEN [ok |-> FALSE, rows |-> rows]
         ELSE ExecuteRows(IF table = MainTable
                          THEN InsertOrReplaceMain(rows, data[i])
                          ELSE InsertOrReplaceChild(rows, data[i]),
                          table, data, i + 1, failAt)

\* A transaction that commits the rows reached so far even when it failed
PartialCommit(before, result) == result.rows

\* conn.commit() is reached only when no execute raised; otherwise the
\* connection is abandoned and its transaction is never committed.
Transaction(before, result) == IF result.ok THEN result.rows ELSE before

\* One save_<kind>(data) call on table.  locked: another (abandoned)
\* connection still holds the write lock, so the first execute raises
\* "database is locked".  Result: [db, ok, lock].
SaveInto(d, table, data, failAt, locked) ==
    IF data = << >> THEN [db |-> d, ok |-> TRUE, lock |-> locked]
    ELSE IF locked THEN [db |-> d, ok |-> FALSE, lock |-> TRUE]
    ELSE LET result == ExecuteRows(d[table], table, data, 1, failAt)
         IN [db   |-> [d EXCEPT ![table] = Transaction(d[table], result)],
             ok   |-> result.ok,
             lock |-> ~result.ok]

save_main_patents(d, data, failAt, locked) == SaveInto(d, "patents_main", data, failAt, locked)
save_abstracts(d, data, failAt, locked) == SaveInto(d, "patent_abstracts", data, failAt, locked)
save_claims(d, data, failAt, locked) == SaveInto(d, "patent_claims", data, failAt, locked)
save_disclosures(d, data, failAt, locked) == SaveInto(d, "patent_disclosures", data, failAt, locked)
save_interested_parties(d, data, failAt, locked) == SaveInto(d, "patent_interested_parties", data, failAt, locked)
save_ipc_classifications(d, data, failAt, locked) == SaveInto(d, "patent_ipc_classifications", data, failAt, locked)
save_priority_claims(d, data, failAt, locked) == SaveInto(d, "patent_priority_claims", data, failAt, locked)

\* save_patents_to_db writes to the table "patents", which no schema creates:
\* every call raises "no such table" before any row is written.
save_patents_to_db(d, n) ==
    IF "patents" \in SchemaTables
    THEN [d EXCEPT !["patents"] = d["patents"] \o [i \in 1..n |-> [id |-> i]]]
    ELSE d

\* get_patent_count: SELECT COUNT(*) FROM patents; 0 when the query raises.
get_patent_count(d) == IF "patents" \in SchemaTables THEN Len(d["patents"]) ELSE 0

Kinds == {"main", "abstract", "claim", "disclosure", "interested_party",
          "ipc_classification", "priority_claim"}

\* the if/elif chain of download_and_extract_zip
SaveByKind(kind, d, data, failAt, locked) ==
    CASE kind = "main" -> save_main_patents(d, data, failAt, locked)
      [] kind = "abstract" -> save_abstracts(d, data, failAt, locked)
      [] kind = "claim" -> save_claims(d, data, failAt, locked)
      [] kind = "disclosure" -> save_disclosures(d, data, failAt, locked)
      [] kind = "interested_party" -> save_interested_parties(d, data, failAt, locked)
      [] kind = "ipc_classification" -> save_ipc_classifications(d, data, failAt, locked)
      [] kind = "priority_claim" -> save_priority_claims(d, data, failAt, locked)

TableOf(kind) ==
    CASE kind = "main" -> "patents_main"
      [] kind = "abstract" -> "patent_abstracts"
      [] kind = "claim" -> "patent_claims"
      [] kind = "disclosure" -> "patent_disclosures"
      [] kind = "interested_party" -> "patent_interested_parties"
      [] kind = "ipc_classification" -> "patent_ipc_classifications"
      [] kind = "priority_claim" -> "patent_priority_claims"


---------------------------------------------------------------------------
(* Catalog, archives and inner files *)

ZipUrl == "https://opic-cipo.ca/PT_2024.zip"
CsvUrl == "https://opic-cipo.ca/status.csv"
XmlUrl == "https://opic-cipo.ca/feed.xml"
PdfUrl == "https://opic-cipo.ca/guide.pdf"
DocUrl == "https://opic-cipo.ca/notes"
\* a second archive published under the same file name in another directory
MirrorZipUrl == "https://opic-cipo.ca/archive/PT_2024.zip"
Urls == {ZipUrl, CsvUrl, XmlUrl, PdfUrl, DocUrl, MirrorZipUrl}

\* resource descriptors of the catalog API: {url, format, ...}
Descriptors ==
    { [url |-> ZipUrl, format |-> "ZIP"],
      [url |-> CsvUrl, format |-> "CSV"],
      [url |-> XmlUrl, format |-> "XML"],
      [url |-> PdfUrl, format |-> "PDF"],
      [url |-> DocUrl, format |-> NULL],
      [url |-> MirrorZipUrl, format |-> "ZIP"] }

\* str.lower() on the format names the catalog uses
Lower(fmt) ==
    CASE fmt = "ZIP" -> "zip" [] fmt = "CSV" -> "csv" [] fmt = "XML" -> "xml"
      [] fmt = "PDF" -> "pdf" [] OTHER -> fmt

\* url.endswith('.zip')
EndsWithZip(url) == url \in {ZipUrl, MirrorZipUrl}

\* url ends with one of ('.zip', '.csv', '.xml')
HasCacheExtension(url) == url \in {ZipUrl, MirrorZipUrl, CsvUrl, XmlUrl}

\* os.path.basename(url)
Basename(url) ==
    CASE url \in {ZipUrl, MirrorZipUrl} -> "PT_2024.zip" [] url = CsvUrl -> "status.csv"
      [] url = XmlUrl -> "feed.xml" [] url = PdfUrl -> "guide.pdf"
      [] url = DocUrl -> "notes"

\* hashlib.md5(url).hexdigest(): one name per url
Md5(url) == CASE url = PdfUrl -> "md5-guide" [] url = DocUrl -> "md5-notes"
              [] OTHER -> "md5-other"

get_cached_file_path(url) ==
    IF HasCacheExtension(url) THEN Basename(url) ELSE Md5(url) \o ".zip"

LocalPaths == {get_cached_file_path(u) : u \in Urls}
NoFile == "NoFile"

\* response.content: the bytes a download of url returns
Bodies == {"bytes-a", "bytes-b"}
ResponseContent(url) == IF url = MirrorZipUrl THEN "bytes-b" ELSE "bytes-a"
NoRow == [local_path |-> "", processed |-> FALSE, present |-> FALSE]

\* Inner files of an archive.  rows: the records the file holds; errAt[s]: the
\* row at which CSV strategy s hits a structural error (0: none); corrupt: the
\* entry cannot be read from the ZIP (bad CRC).
InnerFile(n, r, e, c) == [name |-> n, rows |-> r, errAt |-> e, corrupt |-> c]

NoErr == << 0, 0, 0 >>
CA1 == "CA1234567"
CA2 == "CA7654321"

InnerFiles ==
    { InnerFile("PT_Main_2024.csv", << Raw(CA1, "1", "t1") >>, NoErr, FALSE),
      InnerFile("PT_Main_2025.csv", << Raw(CA1, "1", "t2"), Raw(CA2, "1", "t1") >>, NoErr, FALSE),
      InnerFile("PT_Claim_2024.csv", << Raw(CA1, "1", "t1") >>, NoErr, FALSE),
      InnerFile("PT_Abstract_2024.csv", << Raw(CA1, "1", "t1"), Raw(NULL, "1", "t2") >>, NoErr, FALSE),
      InnerFile("PT_Disclosure_2024.csv", << Raw(CA1, "1", "t1"), Raw(CA2, "1", "t2") >>, << 2, 2, 2 >>, FALSE),
      InnerFile("PT_IPC_classification_2024.csv", << Raw(CA1, "1", "t1") >>, NoErr, TRUE),
      InnerFile("readme.csv", << Raw(CA1, "1", "t1") >>, NoErr, FALSE),
      InnerFile("notes.txt", << >>, NoErr, FALSE) }

\* str.lower() on the inner file names
LowerName(name) ==
    CASE name = "PT_Main_2024.csv" -> "pt_main_2024.csv"
      [] name = "PT_Main_2025.csv" -> "pt_main_2025.csv"
      [] name = "PT_MAIN_2023.CSV" -> "pt_main_2023.csv"
      [] name = "PT_Abstract_2024.csv" -> "pt_abstract_2024.csv"
      [] name = "PT_Claim_2024.csv" -> "pt_claim_2024.csv"
      [] name = "PT_Disclosure_2024.csv" -> "pt_disclosure_2024.csv"
      [] name = "PT_Interested_Party_2024.csv" -> "pt_interested_party_2024.csv"
      [] name = "PT_IPC_classification_2024.csv" -> "pt_ipc_classification_2024.csv"
      [] name = "PT_Priority_Claim_2024.csv" -> "pt_priority_claim_2024.csv"
      [] name = "PT_Main/PT_Claim_2024.csv" -> "pt_main/pt_claim_2024.csv"
      [] OTHER -> name

\* the seven tokens of determine_file_type that are substrings of text
TokensIn(text) ==
    CASE text \in {"pt_main_2024.csv", "pt_main_2025.csv", "pt_main_2023.csv"} -> {"pt_main"}
      [] text = "pt_abstract_2024.csv" -> {"pt_abstract"}
      [] text = "pt_claim_2024.csv" -> {"pt_claim"}
      [] text = "pt_disclosure_2024.csv" -> {"pt_disclosure"}
      [] text = "pt_interested_party_2024.csv" -> {"pt_interested_party"}
      [] text = "pt_ipc_classification_2024.csv" -> {"pt_ipc_classification"}
      [] text = "pt_priority_claim_2024.csv" -> {"pt_priority_claim"}
      [] text = "pt_main/pt_claim_2024.csv" -> {"pt_main", "pt_claim"}
      [] OTHER -> {}

\* token in text
Contains(text, token) == token \in TokensIn(text)

\* the if/elif chain on the name as it is, without lower-casing it
DetermineCaseSensitive(name) ==
    IF Contains(name, "pt_main") THEN "main"
    ELSE IF Contains(name, "pt_abstract") THEN "abstract"
    ELSE IF Contains(name, "pt_claim") THEN "claim"
    ELSE IF Contains(name, "pt_disclosure") THEN "disclosure"
    ELSE IF Contains(name, "pt_interested_party") THEN "interested_party"
    ELSE IF Contains(name, "pt_ipc_classification") THEN "ipc_classification"
    ELSE IF Contains(name, "pt_priority_claim") THEN "priority_claim"
    ELSE "unknown"

\* determine_file_type: the if/elif chain of substring tests on filename.lower()
determine_file_type(name) ==
    LET filename_lower == LowerName(name) IN
    IF Contains(filename_lower, "pt_main") THEN "main"
    ELSE IF Contains(filename_lower, "pt_abstract") THEN "abstract"
    ELSE IF Contains(filename_lower, "pt_claim") THEN "claim"
    ELSE IF Contains(filename_lower, "pt_disclosure") THEN "disclosure"
    ELSE IF Contains(filename_lower, "pt_interested_party") THEN "interested_party"
    ELSE IF Contains(filename_lower, "pt_ipc_classification") THEN "ipc_classification"
    ELSE IF Contains(filename_lower, "pt_priority_claim") THEN "priority_claim"
    ELSE "unknown"

\* file_name.lower().endswith('.csv')
IsCsvFile(name) == LowerName(name) # "notes.txt"

\* rows a csv.DictReader pass yields before it stops: all of them, or the
\* rows before the one that raises csv.Error
StrategyRows(rows, e) == IF e = 0 THEN rows ELSE SubSeq(rows, 1, e - 1)

\* parse_csv_data: the three readers append to the same list, so the rows a
\* failed strategy had already yielded stay in the result.
parse_csv_data(rows, errAt) ==
    LET s1 == StrategyRows(rows, errAt[1])
        s2 == StrategyRows(rows, errAt[2])
        s3 == StrategyRows(rows, errAt[3])
    IN IF errAt[1] = 0 THEN s1
       ELSE IF errAt[2] = 0 THEN s1 \o s2
       ELSE s1 \o s2 \o s3

\* extract_patent_info keeps a record when a title or patent number resolves
Extracted(data) == Cardinality({i \in 1..Len(data) : data[i].val # NULL \/ data[i].pn # NULL})


---------------------------------------------------------------------------
(* Content cache *)

\* The url-keyed file_cache table exists only when init_database created the
\* database; the table create_database_schema creates has no url column, so
\* every statement of the cache raises "no such column".
CacheTableUsable(sch) == sch = "fetcher"

\* a check that never finds the flag set
IsFileProcessedNever(fc, sch, url) == FALSE

\* is_file_processed: SELECT processed ... WHERE url = ?; False on any error
is_file_processed(fc, sch, url) ==
    CacheTableUsable(sch) /\ fc[url].present /\ fc[url].processed

\* the cached local path, or "" (None) when there is no row or no file
is_file_cached(fc, dk, sch, url) ==
    IF CacheTableUsable(sch) /\ fc[url].present /\ dk[fc[url].local_path] # NoFile
    THEN fc[url].local_path
    ELSE ""

\* a cache_file that leaves the row of an already recorded url as it is
\* (INSERT OR IGNORE)
CacheFileKeepRow(fc, dk, sch, url, content, locked) ==
    LET local_path == get_cached_file_path(url)
        written == [dk EXCEPT ![local_path] = content]
    IN IF CacheTableUsable(sch) /\ ~locked
       THEN [path |-> local_path, disk |-> written,
             file_cache |-> IF fc[url].present THEN fc
                            ELSE [fc EXCEPT ![url] = [local_path |-> local_path,
                                                      processed |-> FALSE,
                                                      present |-> TRUE]]]
       ELSE [path |-> "", disk |-> written, file_cache |-> fc]

\* cache_file: the blob is written first, then the row is upserted with
\* processed = False.  Result: [path, disk, file_cache]; path "" on failure.
cache_file(fc, dk, sch, url, content, locked) ==
    LET local_path == get_cached_file_path(url)
        written == [dk EXCEPT ![local_path] = content]
    IN IF CacheTableUsable(sch) /\ ~locked
       THEN [path |-> local_path, disk |-> written,
             file_cache |-> [fc EXCEPT ![url] = [local_path |-> local_path,
                                                 processed |-> FALSE,
                                                 present |-> TRUE]]]
       ELSE [path |-> "", disk |-> written, file_cache |-> fc]

\* a marking that records the url when it has no row (an upsert)
MarkOrCreate(fc, sch, url, locked) ==
    IF CacheTableUsable(sch) /\ ~locked
    THEN [fc EXCEPT ![url] = [local_path |-> IF @.present THEN @.local_path
                                             ELSE get_cached_file_path(url),
                              processed |-> TRUE, present |-> TRUE]]
    ELSE fc

\* mark_file_processed: UPDATE ... WHERE url = ?; errors are swallowed
mark_file_processed(fc, sch, url, locked) ==
    IF CacheTableUsable(sch) /\ ~locked /\ fc[url].present
    THEN [fc EXCEPT ![url].processed = TRUE]
    ELSE fc

---------------------------------------------------------------------------
(* Ingestion run: fetch_all_patent_data *)

NoCall == [cause |-> "none", executed |-> 0, retitled |-> FALSE]
NoCacheCall == [op |-> "none", url |-> "", path |-> "", body |-> "",
                locked |-> FALSE, prior |-> "none"]

\* index of the first execute (or, at Len(data) + 1, the commit) that raises;
\* 0 when the whole batch goes through
FirstFailure(table, data, failAt) ==
    LET bad == {i \in 1..(Len(data) + 1) :
                  failAt = i \/ (i <= Len(data) /\ ViolatesNotNull(table, data[i]))}
    IN IF bad = {} THEN 0 ELSE CHOOSE i \in bad : \A j \in bad : i <= j

MainRow(r) == [patent_number |-> r.pn, title_english |-> r.val]
ChildRow(r) == [patent_number |-> r.pn, sequence_number |-> r.seq, text |-> r.val]

RECURSIVE UpsertAll(_, _)
\* the rows of patents_main after every record of data was upserted in order
UpsertAll(rows, data) ==
    IF data = << >> THEN rows
    ELSE UpsertAll(Append(SelectSeq(rows, LAMBDA x : x.patent_number = NULL
                                                     \/ x.patent_number # Head(data).pn),
                          MainRow(Head(data))),
                   Tail(data))

\* the tables after a batch that is committed as a whole
ApplyAll(d, table, data) ==
    IF table = MainTable
    THEN [d EXCEPT ![table] = UpsertAll(@, data)]
    ELSE [d EXCEPT ![table] = @ \o [i \in 1..Len(data) |-> ChildRow(data[i])]]

RECURSIVE LastTitles(_, _)
\* title per patent number after the records of data, later records winning
LastTitles(lt, data) ==
    IF data = << >> THEN lt
    ELSE LastTitles(IF Head(data).pn = NULL THEN lt
                    ELSE [lt EXCEPT ![Head(data).pn] = Head(data).val],
                    Tail(data))

NewRun(listed) == [end |-> "running", listed |-> listed, ev |-> [u \in Urls |-> "none"]]

Log(u, e) == [runlog EXCEPT ![runNo].ev[u] = e]
LogEnd(log, e) == [log EXCEPT ![runNo].end = e]

HasResource == pc = "resource" /\ ri \in 1..Len(catalog)
Resource == catalog[ri]

\* format_type == 'zip' or resource_url.endswith('.zip')
IsZipResource(r) == Lower(r.format) = "zip" \/ EndsWithZip(r.url)
IsFlatResource(r) == ~IsZipResource(r) /\ Lower(r.format) \in {"json", "csv", "xml", "rdf"}

\* the effective write lock when a statement runs: a leaked connection keeps
\* it until the garbage collector has closed that connection
Locked(gcRan) == db_lock /\ ~gcRan

\* whether the collector ran only matters while a connection is leaked
GcChoices == IF db_lock THEN BOOLEAN ELSE {FALSE}

\* one save_<kind>(data) call and what it leaves behind
SaveEffect(kind, data, failAt, gcRan) ==
    LET table == TableOf(kind)
        s == SaveByKind(kind, db, data, failAt, Locked(gcRan))
        ff == FirstFailure(table, data, failAt)
        rejected == data # << >> /\ (Locked(gcRan) \/ ff # 0)
    IN /\ db' = s.db
       /\ db_lock' = s.lock
       /\ lastCall' = [cause |-> IF ~rejected THEN "none"
                                 ELSE IF Locked(gcRan) THEN "locked" ELSE "rejected",
                       executed |-> IF data = << >> \/ Locked(gcRan) THEN 0
                                    ELSE IF ff = 0 THEN Len(data) ELSE ff - 1,
                       retitled |-> /\ ~rejected
                                    /\ table = MainTable
                                    /\ \E i \in 1..Len(data) :
                                         /\ data[i].pn # NULL
                                         /\ lastTitle[data[i].pn] \notin {NULL, data[i].val}]
       /\ calls' = calls + 1
       /\ expected' = IF rejected THEN expected ELSE ApplyAll(expected, table, data)
       /\ lastTitle' = IF ~rejected /\ table = MainTable
                       THEN LastTitles(lastTitle, data) ELSE lastTitle

\* the number of characters the two size tests of download_and_parse_resource
\* compare against
MinChars == 100

\* a flat payload, reduced to what the size tests read: the number of
\* characters of the decoded text, and of the text with the surrounding
\* white space stripped
NoPayload == [len |-> 0, stripped |-> 0]
Paddings == {0, 1, 2}
Payloads ==
    {[len |-> n, stripped |-> n - w] : n \in (MinChars - 1)..(MinChars + 1), w \in Paddings}

\* the decoding loop: an encoding is kept when the decoded text is non-empty
\* and longer than MinChars characters; when no encoding is kept the for-else
\* branch returns no records
LooksReasonable(p) == p.len # 0 /\ p.len > MinChars

\* "Skip if content is too small": len(content_text.strip()) < 100
TooSmall(p) == p.stripped < MinChars

\* what download_and_parse_resource does with a text payload
SizeOutcome(p) ==
    IF ~LooksReasonable(p) THEN "undecodable"
    ELSE IF TooSmall(p) THEN "too_small"
    ELSE "downloaded"

\* what the catalog server does with the two requests of the discovery,
\* package_search and package_show, both sent as session.get(url, params=params):
\* it answers with the listing, it fails (the error is caught and the listing
\* is empty), or it accepts the connection and never sends a response, and
\* a get without a timeout argument waits for that response without limit
CatalogAnswers == {"listed", "failed", "silent"}

\* fetch_all_patent_data up to the resource loop: discovery through the
\* catalog API.
StartRun ==
    /\ pc = "idle"
    /\ runNo < MaxRuns
    /\ \E answer \in CatalogAnswers :
         /\ runlog' = Append(runlog, IF answer = "failed"
                                     THEN [NewRun(FALSE) EXCEPT !.end = "completed"]
                                     ELSE NewRun(answer = "listed"))
         /\ pc' = CASE answer = "listed" -> "resource"
                     [] answer = "failed" -> "idle"
                     [] answer = "silent" -> "blocked"
    /\ runNo' = runNo + 1
    /\ ri' = 1
    /\ fi' = 0
    /\ patents' = 0
    /\ total_patents' = 0
    /\ payload' = NoPayload
    /\ sinceFetch' = FALSE
    /\ UNCHANGED << storeVars, cacheVars, envVars, downloads, appVars >>

\* resource.get('format', '').lower() on a descriptor whose format is null
\* raises AttributeError; the handler around the dataset ends the resource loop.
ResourceMalformed ==
    /\ HasResource
    /\ Resource.format = NULL
    /\ runlog' = LogEnd(Log(Resource.url, "error"), "completed")
    /\ pc' = "idle"
    /\ UNCHANGED << storeVars, cacheVars, envVars, ri, fi, patents, total_patents,
                    runNo, downloads, payload, sinceFetch, appVars >>

\* a format that is neither zip nor json/csv/xml/rdf: continue
ResourceUnsupported ==
    /\ HasResource
    /\ Resource.format # NULL
    /\ ~IsZipResource(Resource) /\ ~IsFlatResource(Resource)
    /\ runlog' = Log(Resource.url, "unsupported")
    /\ ri' = ri + 1
    /\ UNCHANGED << storeVars, cacheVars, envVars, pc, fi, patents, total_patents,
                    runNo, downloads, payload, sinceFetch, appVars >>

\* download_and_extract_zip up to the inner-file loop: processed check, cache
\* check, download and cache_file.
ZipBegin ==
    /\ HasResource
    /\ Resource.format # NULL
    /\ IsZipResource(Resource)
    /\ LET url == Resource.url IN
       IF is_file_processed(file_cache, schema, url)
       THEN /\ runlog' = Log(url, "skipped")
            /\ ri' = ri + 1
            /\ UNCHANGED << pc, fi, patents, downloads, cacheVars, db_lock, sinceFetch >>
       ELSE IF is_file_cached(file_cache, disk, schema, url) # ""
       THEN /\ runlog' = Log(url, "cached")
            /\ pc' = "inner"
            /\ fi' = 1
            /\ patents' = 0
            /\ UNCHANGED << ri, downloads, cacheVars, db_lock, sinceFetch >>
       ELSE \E netOk \in BOOLEAN, gcRan \in GcChoices :
            IF ~netOk
            THEN /\ runlog' = Log(url, "failed")
                 /\ ri' = ri + 1
                 /\ UNCHANGED << pc, fi, patents, downloads, cacheVars, db_lock, sinceFetch >>
            ELSE LET c == cache_file(file_cache, disk, schema, url,
                                     ResponseContent(url), Locked(gcRan)) IN
                 /\ downloads' = [downloads EXCEPT ![url] = @ + 1]
                 /\ sinceFetch' = TRUE
                 /\ disk' = c.disk
                 /\ UNCHANGED cacheCall
                 /\ file_cache' = c.file_cache
                 /\ db_lock' = Locked(gcRan)
                 /\ runlog' = Log(url, "downloaded")
                 /\ IF c.path = ""
                    THEN ri' = ri + 1 /\ UNCHANGED << pc, fi, patents >>
                    ELSE pc' = "inner" /\ fi' = 1 /\ patents' = 0 /\ UNCHANGED ri
    /\ UNCHANGED << db, lastCall, calls, expected, lastTitle, envVars, total_patents,
                    runNo, payload, appVars >>

\* back in fetch_all_patent_data after download_and_extract_zip returned n
\* legacy records: save_patents_to_db, then the running total
AfterZip(n) ==
    /\ db' = IF n > 0 THEN save_patents_to_db(db, n) ELSE db
    /\ total_patents' = total_patents + n
    /\ ri' = ri + 1
    /\ pc' = "resource"
    /\ fi' = 0
    /\ patents' = 0

\* one iteration of "for file_name in file_list": skip, or read, parse and save
InnerFileStep ==
    /\ pc = "inner"
    /\ fi \in 1..Len(archive)
    /\ LET f == archive[fi]
           file_type == determine_file_type(f.name)
           parsed_data == parse_csv_data(f.rows, f.errAt)
       IN
       IF ~IsCsvFile(f.name)
       THEN /\ fi' = fi + 1
            /\ UNCHANGED << storeVars, pc, ri, patents, total_patents, runlog >>
       ELSE IF f.corrupt
       THEN \* zip_file.open/read raises BadZipFile: the function returns
            \* without marking the resource
            /\ AfterZip(patents)
            /\ runlog' = Log(Resource.url, "aborted")
            /\ UNCHANGED << db_lock, lastCall, calls, expected, lastTitle >>
       ELSE IF parsed_data = << >>
       THEN /\ fi' = fi + 1
            /\ UNCHANGED << storeVars, pc, ri, patents, total_patents, runlog >>
       ELSE IF file_type = "unknown"
       THEN /\ patents' = patents + Extracted(parsed_data)
            /\ fi' = fi + 1
            /\ UNCHANGED << storeVars, pc, ri, total_patents, runlog >>
       ELSE \E failAt \in 0..(Len(parsed_data) + 1), gcRan \in GcChoices :
            /\ SaveEffect(file_type, parsed_data, failAt, gcRan)
            /\ fi' = fi + 1
            /\ UNCHANGED << pc, ri, patents, total_patents, runlog >>
    /\ UNCHANGED << cacheVars, envVars, runNo, downloads, payload, sinceFetch, appVars >>

\* after the loop: mark_file_processed(url), return to fetch_all_patent_data
ZipMark ==
    /\ pc = "inner"
    /\ fi > Len(archive)
    /\ \E gcRan \in GcChoices :
         /\ file_cache' = mark_file_processed(file_cache, schema, Resource.url, Locked(gcRan))
         /\ db_lock' = Locked(gcRan)
    /\ AfterZip(patents)
    /\ UNCHANGED << disk, cacheCall, lastCall, calls, expected, lastTitle, envVars,
                    runNo, downloads, runlog, payload, sinceFetch, appVars >>

\* the records a flat resource parses to
FlatContent == << Raw(CA1, "1", "t1"), Raw(CA2, "1", "t1") >>
FlatRecords(url) == Len(FlatContent)

\* download_and_parse_resource, save_patents_to_db and the one-second sleep.
\* Nothing is cached and nothing is marked processed.
FlatResource ==
    /\ HasResource
    /\ Resource.format # NULL
    /\ IsFlatResource(Resource)
    /\ LET url == Resource.url IN
       IF is_file_processed(file_cache, schema, url)
       THEN /\ runlog' = Log(url, "skipped")
            /\ UNCHANGED << db, total_patents, downloads, payload >>
       ELSE \E netOk \in BOOLEAN :
            IF ~netOk
            THEN /\ runlog' = Log(url, "failed")
                 /\ UNCHANGED << db, total_patents, downloads, payload >>
            ELSE \E p \in Payloads :
                 /\ downloads' = [downloads EXCEPT ![url] = @ + 1]
                 /\ payload' = p
                 /\ runlog' = Log(url, SizeOutcome(p))
                 /\ IF SizeOutcome(p) = "downloaded"
                    THEN /\ db' = save_patents_to_db(db, FlatRecords(url))
                         /\ total_patents' = total_patents + FlatRecords(url)
                    ELSE UNCHANGED << db, total_patents >>
    /\ ri' = ri + 1
    /\ sinceFetch' = FALSE
    /\ UNCHANGED << db_lock, lastCall, calls, expected, lastTitle, cacheVars, envVars,
                    pc, fi, patents, runNo, appVars >>

\* the resource loop is over: save_dataset_info and the closing log line
FinishRun ==
    /\ pc = "resource"
    /\ ri > Len(catalog)
    /\ pc' = "idle"
    /\ runlog' = LogEnd(runlog, "completed")
    /\ UNCHANGED << storeVars, cacheVars, envVars, ri, fi, patents, total_patents,
                    runNo, downloads, payload, sinceFetch, appVars >>

\* the process is killed: the run's local state is lost, open connections
\* die with the process; database and cache directory stay as they are
Kill ==
    /\ pc # "idle"
    /\ pc' = "idle"
    /\ db_lock' = FALSE
    /\ runlog' = LogEnd(runlog, "killed")
    /\ UNCHANGED << db, lastCall, calls, expected, lastTitle, cacheVars, envVars, ri,
                    fi, patents, total_patents, runNo, downloads, payload, sinceFetch,
                    appVars >>

---------------------------------------------------------------------------
(* Initial states *)

RECURSIVE SeqsUpTo(_, _)
\* sequences over S of length 1..n
SeqsUpTo(S, n) ==
    IF n = 0 THEN {}
    ELSE LET shorter == SeqsUpTo(S, n - 1)
         IN {<< x >> : x \in S} \cup {Append(q, x) : q \in shorter, x \in S}

Distinct(q) == \A i, j \in 1..Len(q) : i # j => q[i] # q[j]

Catalogs == {q \in SeqsUpTo(Descriptors, MaxResources) : Distinct(q)}
Archives == SeqsUpTo(InnerFiles, MaxInner)

ZipCatalog == << [url |-> ZipUrl, format |-> "ZIP"] >>
PlainArchive ==
    << InnerFile("PT_Main_2024.csv", << Raw(CA1, "1", "t1") >>, NoErr, FALSE),
       InnerFile("PT_Claim_2024.csv", << Raw(CA1, "1", "t1") >>, NoErr, FALSE) >>

InitApp ==
    /\ download_status = [active |-> FALSE, total_downloaded |-> 0, error |-> NULL]
    /\ threads = << >>
    /\ responses = << >>

InitStoreEmpty ==
    /\ db = EmptyDb
    /\ db_lock = FALSE
    /\ lastCall = NoCall
    /\ calls = 0
    /\ expected = EmptyDb
    /\ lastTitle = [p \in PatentNumbers |-> NULL]

Init ==
    /\ InitStoreEmpty
    /\ file_cache = [u \in Urls |-> NoRow]
    /\ disk = [p \in LocalPaths |-> NoFile]
    /\ cacheCall = NoCacheCall
    /\ schema \in {"fetcher", "app"}
    /\ \/ catalog \in Catalogs /\ archive = PlainArchive
       \/ catalog = ZipCatalog /\ archive \in Archives
    /\ pc = "idle"
    /\ ri = 1
    /\ fi = 0
    /\ patents = 0
    /\ total_patents = 0
    /\ runNo = 0
    /\ downloads = [u \in Urls |-> 0]
    /\ runlog = << >>
    /\ payload = NoPayload
    /\ sinceFetch = FALSE
    /\ InitApp

Next ==
    \/ StartRun
    \/ ResourceMalformed
    \/ ResourceUnsupported
    \/ ZipBegin
    \/ InnerFileStep
    \/ ZipMark
    \/ FlatResource
    \/ FinishRun
    \/ Kill

Spec == Init /\ [][Next]_vars


---------------------------------------------------------------------------
(* The store on its own: save calls with arbitrary batches *)

\* records of the batches: one patent with two titles, a second patent and a
\* record without the patent-number label
StoreRecords ==
    { Raw(CA1, "1", "t1"), Raw(CA1, "1", "t2"), Raw(CA2, "1", "t1"), Raw(NULL, "1", "t1") }

Batches == {<< >>} \cup SeqsUpTo(StoreRecords, MaxBatch)

\* the calls of one behaviour address one table: no other table holds rows
OnlyTableWritten(table) == \A t \in PatentTables \ {table} : db[t] = << >>

SaveCall(kind) ==
    /\ calls < MaxCalls
    /\ OnlyTableWritten(TableOf(kind))
    /\ \E data \in Batches, gcRan \in GcChoices :
       \E failAt \in 0..(Len(data) + 1) :
         SaveEffect(kind, data, failAt, gcRan)
    /\ UNCHANGED << cacheVars, envVars, runVars, appVars >>

SaveMainCall == SaveCall("main")
SaveAbstractsCall == SaveCall("abstract")
SaveClaimsCall == SaveCall("claim")
SaveDisclosuresCall == SaveCall("disclosure")
SaveInterestedPartiesCall == SaveCall("interested_party")
SaveIpcClassificationsCall == SaveCall("ipc_classification")
SavePriorityClaimsCall == SaveCall("priority_claim")

InitStore ==
    /\ InitStoreEmpty
    /\ file_cache = [u \in Urls |-> NoRow]
    /\ disk = [p \in LocalPaths |-> NoFile]
    /\ cacheCall = NoCacheCall
    /\ schema = "fetcher"
    /\ catalog = ZipCatalog
    /\ archive = PlainArchive
    /\ pc = "idle"
    /\ ri = 1
    /\ fi = 0
    /\ patents = 0
    /\ total_patents = 0
    /\ runNo = 0
    /\ downloads = [u \in Urls |-> 0]
    /\ runlog = << >>
    /\ payload = NoPayload
    /\ sinceFetch = FALSE
    /\ InitApp

NextStore ==
    \/ SaveMainCall
    \/ SaveAbstractsCall
    \/ SaveClaimsCall
    \/ SaveDisclosuresCall
    \/ SaveInterestedPartiesCall
    \/ SaveIpcClassificationsCall
    \/ SavePriorityClaimsCall

SpecStore == InitStore /\ [][NextStore]_vars


---------------------------------------------------------------------------
(* The content cache on its own: cache_file and mark_file_processed calls *)

\* urls of the cache calls: an archive, a second archive with the same file
\* name, and a url without a recognized extension
CacheUrls == {ZipUrl, MirrorZipUrl, DocUrl}

\* what the file_cache table held for url before a call
PriorEntry(url) ==
    IF ~file_cache[url].present THEN "none"
    ELSE IF file_cache[url].processed THEN "processed" ELSE "unprocessed"

\* cache_file(url, content) on downloaded bytes
CacheFileCall ==
    /\ \E url \in CacheUrls, content \in Bodies, gcRan \in GcChoices :
         LET c == cache_file(file_cache, disk, schema, url, content, Locked(gcRan)) IN
         /\ file_cache' = c.file_cache
         /\ disk' = c.disk
         /\ db_lock' = Locked(gcRan)
         /\ cacheCall' = [op |-> "cache_file", url |-> url, path |-> c.path,
                          body |-> content, locked |-> Locked(gcRan),
                          prior |-> PriorEntry(url)]
    /\ UNCHANGED << db, lastCall, calls, expected, lastTitle, envVars, runVars, appVars >>

\* mark_file_processed(url)
MarkFileProcessedCall ==
    /\ \E url \in CacheUrls, gcRan \in GcChoices :
         /\ file_cache' = mark_file_processed(file_cache, schema, url, Locked(gcRan))
         /\ db_lock' = Locked(gcRan)
         /\ cacheCall' = [op |-> "mark_file_processed", url |-> url, path |-> "",
                          body |-> "", locked |-> Locked(gcRan),
                          prior |-> PriorEntry(url)]
    /\ UNCHANGED << disk, db, lastCall, calls, expected, lastTitle, envVars, runVars,
                    appVars >>

\* the database was created by the fetcher or by the web application, and a
\* failed save may have left its connection open
InitCache ==
    /\ db = EmptyDb
    /\ db_lock \in BOOLEAN
    /\ lastCall = NoCall
    /\ calls = 0
    /\ expected = EmptyDb
    /\ lastTitle = [p \in PatentNumbers |-> NULL]
    /\ file_cache = [u \in Urls |-> NoRow]
    /\ disk = [p \in LocalPaths |-> NoFile]
    /\ cacheCall = NoCacheCall
    /\ schema \in {"fetcher", "app"}
    /\ catalog = ZipCatalog
    /\ archive = PlainArchive
    /\ pc = "idle"
    /\ ri = 1
    /\ fi = 0
    /\ patents = 0
    /\ total_patents = 0
    /\ runNo = 0
    /\ downloads = [u \in Urls |-> 0]
    /\ runlog = << >>
    /\ payload = NoPayload
    /\ sinceFetch = FALSE
    /\ InitApp

NextCache ==
    \/ CacheFileCall
    \/ MarkFileProcessedCall

SpecCache == InitCache /\ [][NextCache]_vars


---------------------------------------------------------------------------
(* One ZIP resource: routing of the inner files to the tables *)

OneRow == << Raw(CA1, "1", "t1") >>

\* one inner file per kind, a name in upper case, a name that holds two
\* tokens and a CSV file of no kind
RouteFiles ==
    { InnerFile("PT_Main_2024.csv", OneRow, NoErr, FALSE),
      InnerFile("PT_Claim_2024.csv", OneRow, NoErr, FALSE),
      InnerFile("PT_Abstract_2024.csv", OneRow, NoErr, FALSE),
      InnerFile("PT_Disclosure_2024.csv", OneRow, NoErr, FALSE),
      InnerFile("PT_Interested_Party_2024.csv", OneRow, NoErr, FALSE),
      InnerFile("PT_IPC_classification_2024.csv", OneRow, NoErr, FALSE),
      InnerFile("PT_Priority_Claim_2024.csv", OneRow, NoErr, FALSE),
      InnerFile("PT_MAIN_2023.CSV", << Raw(CA2, "1", "t2") >>, NoErr, FALSE),
      InnerFile("PT_Main/PT_Claim_2024.csv", << Raw(CA2, "1", "t1") >>, NoErr, FALSE),
      InnerFile("readme.csv", OneRow, NoErr, FALSE) }

\* archives of the routing specification: entries with distinct names
RouteArchives == {q \in SeqsUpTo(RouteFiles, MaxInner) : Distinct(q)}

InitZip ==
    /\ InitStoreEmpty
    /\ file_cache = [u \in Urls |-> NoRow]
    /\ disk = [p \in LocalPaths |-> NoFile]
    /\ cacheCall = NoCacheCall
    /\ schema = "fetcher"
    /\ catalog = ZipCatalog
    /\ archive \in RouteArchives
    /\ pc = "idle"
    /\ ri = 1
    /\ fi = 0
    /\ patents = 0
    /\ total_patents = 0
    /\ runNo = 0
    /\ downloads = [u \in Urls |-> 0]
    /\ runlog = << >>
    /\ payload = NoPayload
    /\ sinceFetch = FALSE
    /\ InitApp

NextZip ==
    \/ StartRun
    \/ ZipBegin
    \/ InnerFileStep
    \/ ZipMark
    \/ FinishRun

SpecZip == InitZip /\ [][NextZip]_vars


---------------------------------------------------------------------------
(* Web layer: start_download and download_patents_background *)

Max(a, b) == IF a >= b THEN a ELSE b

\* counts a "Total patents extracted from ZIP: n" log line can carry
ExtractedCounts == {0, 1, 2}

Running(t) == threads[t] \in {"spawned", "fetching", "blocked", "finishing"}
RunningThreads == {t \in 1..Len(threads) : Running(t)}

\* POST /api/download/start: refuse when the flag is set, else start a thread
start_download ==
    /\ Len(responses) < MaxRequests
    /\ IF download_status.active
       THEN /\ responses' = Append(responses, "AlreadyRunning")
            /\ UNCHANGED threads
       ELSE /\ threads' = Append(threads, "spawned")
            /\ responses' = Append(responses, "Started")
    /\ UNCHANGED << download_status, storeVars, cacheVars, envVars, runVars >>

\* download_patents_background, first statements: the thread sets the flag,
\* clears the error, builds the fetcher and installs the log handler
BackgroundBegin(t) ==
    /\ threads[t] = "spawned"
    /\ download_status' = [download_status EXCEPT !.active = TRUE, !.error = NULL]
    /\ threads' = [threads EXCEPT ![t] = "fetching"]
    /\ UNCHANGED << responses, storeVars, cacheVars, envVars, runVars >>

\* StatusHandler.emit on a "Total patents extracted from ZIP: n" record
StatusHandlerEmit(t) ==
    /\ threads[t] = "fetching"
    /\ \E n \in ExtractedCounts :
         download_status' = [download_status EXCEPT
                               !.total_downloaded = Max(@, n)]
    /\ UNCHANGED << threads, responses, storeVars, cacheVars, envVars, runVars >>

\* fetch_all_patent_data returned (total := final_count - initial_count, both
\* from get_patent_count) or an exception reached the handler
BackgroundEnd(t) ==
    /\ threads[t] = "fetching"
    /\ \E raised \in BOOLEAN :
         download_status' =
            IF raised THEN [download_status EXCEPT !.error = "error"]
            ELSE [download_status EXCEPT
                    !.total_downloaded = get_patent_count(db) - get_patent_count(db)]
    /\ threads' = [threads EXCEPT ![t] = "finishing"]
    /\ UNCHANGED << responses, storeVars, cacheVars, envVars, runVars >>

\* fetch_all_patent_data neither returns nor raises: the catalog server never
\* answers a session.get that carries no timeout, and the thread waits in it
BackgroundBlocked(t) ==
    /\ threads[t] = "fetching"
    /\ threads' = [threads EXCEPT ![t] = "blocked"]
    /\ UNCHANGED << download_status, responses, storeVars, cacheVars, envVars, runVars >>

\* finally: download_status['active'] = False
BackgroundFinally(t) ==
    /\ threads[t] = "finishing"
    /\ download_status' = [download_status EXCEPT !.active = FALSE]
    /\ threads' = [threads EXCEPT ![t] = "done"]
    /\ UNCHANGED << responses, storeVars, cacheVars, envVars, runVars >>

NextApp ==
    \/ start_download
    \/ \E t \in 1..Len(threads) : BackgroundBegin(t)
    \/ \E t \in 1..Len(threads) : StatusHandlerEmit(t)
    \/ \E t \in 1..Len(threads) : BackgroundEnd(t)
    \/ \E t \in 1..Len(threads) : BackgroundBlocked(t)
    \/ \E t \in 1..Len(threads) : BackgroundFinally(t)

SpecApp == InitStore /\ [][NextApp]_vars

\* the statements a started thread executes next: the interpreter schedules
\* every thread that can run, so a thread that has a next statement executes
\* it; whether the fetch ends or waits is the network's choice, not the
\* scheduler's
ThreadStarts(t) == t \in 1..Len(threads) /\ BackgroundBegin(t)
ThreadFetches(t) == t \in 1..Len(threads) /\ (BackgroundEnd(t) \/ BackgroundBlocked(t))
ThreadFinishes(t) == t \in 1..Len(threads) /\ BackgroundFinally(t)

ThreadFairness ==
    \A t \in 1..MaxRequests :
        /\ WF_vars(ThreadStarts(t))
        /\ WF_vars(ThreadFetches(t))
        /\ WF_vars(ThreadFinishes(t))

SpecAppLive == InitStore /\ [][NextApp]_vars /\ ThreadFairness


---------------------------------------------------------------------------
(* Properties *)

\* number of positions of rows that hold row
CountIn(rows, row) == Cardinality({i \in 1..Len(rows) : rows[i] = row})

\* the records one parse-map-save pass over the archive hands to table
RECURSIVE PassRows(_, _)
PassRows(files, table) ==
    IF files = << >> THEN << >>
    ELSE LET f == Head(files)
             kind == determine_file_type(f.name)
         IN (IF IsCsvFile(f.name) /\ ~f.corrupt /\ kind # "unknown" /\ TableOf(kind) = table
             THEN [i \in 1..Len(parse_csv_data(f.rows, f.errAt)) |->
                     ChildRow(parse_csv_data(f.rows, f.errAt)[i])]
             ELSE << >>) \o PassRows(Tail(files), table)

\* C1: ingesting the same archive twice yields the same rows as ingesting it
\* once: no child table holds a row more often than one pass over the
\* archive's inner files writes it, and patents_main holds one row per patent.
C1_IdempotentIngestion ==
    /\ \A table \in ChildTables :
         \A i \in 1..Len(db[table]) :
            CountIn(db[table], db[table][i]) <= CountIn(PassRows(archive, table), db[table][i])
    /\ \A i, j \in 1..Len(db[MainTable]) :
         i # j => db[MainTable][i].patent_number # db[MainTable][j].patent_number

BothRunsCompleted ==
    Len(runlog) = 2 /\ runlog[1].end = "completed" /\ runlog[2].end = "completed"

\* C2: two consecutive runs over an unchanged resource of a handled format
\* download it exactly once, and the second run skips it through the
\* processed flag.
C2_OneDownloadThenSkipped ==
    BothRunsCompleted =>
        \A u \in Urls :
            (runlog[1].ev[u] = "downloaded" /\ runlog[2].ev[u] # "none")
                => (downloads[u] = 1 /\ runlog[2].ev[u] = "skipped")

\* every record of every inner CSV file of the archive is in the store
AllRecordsCommitted ==
    \A i \in 1..Len(archive) :
        LET f == archive[i]
            kind == determine_file_type(f.name)
        IN IsCsvFile(f.name) =>
             \A k \in 1..Len(f.rows) :
                /\ kind # "unknown"
                /\ \E m \in 1..Len(db[TableOf(kind)]) :
                      /\ db[TableOf(kind)][m].patent_number = f.rows[k].pn
                      /\ IF kind = "main"
                         THEN db[TableOf(kind)][m].title_english = f.rows[k].val
                         ELSE db[TableOf(kind)][m].text = f.rows[k].val

\* C3: a cache entry's processed flag is true only if all records of all
\* inner files of that resource have been committed to the store.
C3_ProcessedOnlyWhenCommitted ==
    \A u \in Urls :
        (file_cache[u].present /\ file_cache[u].processed) => AllRecordsCommitted

\* C4: at most one ingestion run is executing at any time.
C4_SingleRun == Cardinality(RunningThreads) <= 1

\* C5: patents_main holds at most one row per patent_number, and that row
\* carries the title of the most recent committed save of that patent_number.
C5_OneRowLastWriterWins ==
    \A p \in PatentNumbers :
        LET rows == SelectSeq(db[MainTable], LAMBDA x : x.patent_number = p)
        IN IF lastTitle[p] = NULL
           THEN rows = << >>
           ELSE rows = << [patent_number |-> p, title_english |-> lastTitle[p]] >>

\* a committed save_main_patents call replaced the title of a stored patent,
\* and the table holds that patent once, next to another patent
C5_Witness ==
    /\ lastCall.retitled
    /\ lastCall.cause = "none"
    /\ Len(db[MainTable]) = 2
    /\ \E i \in 1..2 : db[MainTable][i] = [patent_number |-> CA1, title_english |-> "t2"]
    /\ \E i \in 1..2 : db[MainTable][i].patent_number = CA2

\* C6: a resource that a killed run had downloaded is not downloaded again by
\* the next run: it is parsed from the cache, or skipped when it was marked.
C6_ResumeFromCache ==
    \A r \in 2..Len(runlog) :
        runlog[r - 1].end = "killed" =>
            \A u \in Urls :
                runlog[r - 1].ev[u] = "downloaded"
                    => runlog[r].ev[u] \in {"none", "cached", "skipped"}

\* C7: a failure on one resource, a malformed descriptor included, never keeps
\* the remaining resources of the catalog from being processed in that run.
C7_ResourceIsolation ==
    \A r \in 1..Len(runlog) :
        (runlog[r].end = "completed" /\ runlog[r].listed)
            => \A i \in 1..Len(catalog) : runlog[r].ev[catalog[i].url] # "none"

\* no strategy of parse_csv_data gets through the file
ParseFails(f) == f.errAt[1] # 0 /\ f.errAt[2] # 0 /\ f.errAt[3] # 0

\* C8: within a ZIP, the inner-file loop is left for the next resource only
\* after the last inner file, and an inner file that cannot be read or parsed
\* contributes no record to the store.
C8_InnerFileIsolation ==
    [][ /\ (pc = "inner" /\ pc' = "resource") => fi > Len(archive)
        /\ (pc = "inner" /\ fi \in 1..Len(archive) /\ pc' = "inner" /\ fi' = fi + 1
              /\ IsCsvFile(archive[fi].name)
              /\ (archive[fi].corrupt \/ ParseFails(archive[fi])))
           => db' = db ]_vars

\* C9: a save call is never turned down because an earlier save call failed:
\* after a rejected write the later save calls can still commit.
C9_LaterSavesCommit == lastCall.cause # "locked"

\* C10: each save call is all-or-nothing: the tables are those that result
\* from committing every accepted batch whole and no row of a rejected batch.
C10_AllOrNothing == db = expected

\* a batch was rejected after at least one of its rows had been executed
C10_Witness ==
    /\ lastCall.cause = "rejected"
    /\ lastCall.executed >= 1
    /\ calls >= 1

\* C11: when cache_file returns a path, the row of url holds that path with
\* processed = false whatever it held before, and the file at that path holds
\* the bytes just stored; when the row was not recorded the call returns "".
C11_StoreOverwrites ==
    [][ cacheCall'.op = "cache_file" =>
          LET u == cacheCall'.url
              p == cacheCall'.path
          IN IF p # ""
             THEN /\ file_cache'[u] = [local_path |-> p, processed |-> FALSE,
                                       present |-> TRUE]
                  /\ disk'[p] = cacheCall'.body
                  /\ p = get_cached_file_path(u)
             ELSE file_cache' = file_cache ]_vars

\* cache_file returned a path for a url whose row was marked processed before
C11_Witness ==
    /\ cacheCall.op = "cache_file"
    /\ cacheCall.path # ""
    /\ cacheCall.prior = "processed"
    /\ ~file_cache[cacheCall.url].processed
    /\ disk[cacheCall.path] = cacheCall.body

\* C12: mark_file_processed(url) changes no row but that of url and no file,
\* creates no row (a no-op when url has none), and a second call under the
\* same conditions changes nothing any more.
C12_MarkIdempotent ==
    [][ cacheCall'.op = "mark_file_processed" =>
          LET u == cacheCall'.url IN
          /\ \A v \in Urls \ {u} : file_cache'[v] = file_cache[v]
          /\ file_cache'[u].present = file_cache[u].present
          /\ ~file_cache[u].present => file_cache' = file_cache
          /\ disk' = disk
          /\ mark_file_processed(file_cache', schema, u, cacheCall'.locked)
                = file_cache' ]_vars

\* mark_file_processed was called for a url without a row while another url
\* was recorded, and a recorded url is marked
C12_Witness ==
    /\ cacheCall.op = "mark_file_processed"
    /\ cacheCall.prior = "none"
    /\ ~cacheCall.locked
    /\ schema = "fetcher"
    /\ \E v \in CacheUrls : file_cache[v].present /\ file_cache[v].processed

\* C13: the cache holds one blob per url: storing the bytes of one url leaves
\* the file that every other recorded url points to as it was.
C13_OneBlobPerUrl ==
    [][ cacheCall'.op = "cache_file" =>
          \A v \in Urls \ {cacheCall'.url} :
             file_cache[v].present
                => disk'[file_cache[v].local_path] = disk[file_cache[v].local_path]
      ]_vars

\* C14: in a database created by either schema the cache operations work: a
\* cache_file call that no lock turns down records the url and returns its path.
C14_CacheWorksOnEverySchema ==
    (cacheCall.op = "cache_file" /\ ~cacheCall.locked)
        => (cacheCall.path # "" /\ file_cache[cacheCall.url].present)

\* C15: no committed row of patents_main has a null patent_number.
C15_ParentKeyNeverNull ==
    \A i \in 1..Len(db[MainTable]) : db[MainTable][i].patent_number # NULL

\* C16: for every kind, a save call on a row that lacks a label, the
\* patent-number label included, is not rejected when nothing else fails, and
\* the row is persisted with a null in the mapped column.
C16_AbsentLabelPersisted ==
    \A kind \in Kinds : \A r \in StoreRecords :
        LET s == SaveByKind(kind, db, << r >>, 0, FALSE)
            rows == s.db[TableOf(kind)]
        IN /\ s.ok
           /\ rows # << >>
           /\ rows[Len(rows)].patent_number = r.pn

\* rows held by the seven patent tables together
TotalRows(d) ==
    Len(d["patents_main"]) + Len(d["patent_abstracts"]) + Len(d["patent_claims"])
      + Len(d["patent_disclosures"]) + Len(d["patent_interested_parties"])
      + Len(d["patent_ipc_classifications"]) + Len(d["patent_priority_claims"])

\* C17: the total emitted at the end of a run counts the records of all
\* seven kinds ingested in that run: after the first completed run on an empty
\* database it is not smaller than the number of rows the run committed.
C17_TotalCountsAllKinds ==
    (runNo = 1 /\ pc = "idle" /\ runlog[1].end = "completed")
        => total_patents >= TotalRows(db)

\* patent numbers of the committed rows of patents_main
CommittedPatents == {db[MainTable][i].patent_number : i \in 1..Len(db[MainTable])}

\* C18: get_patent_count returns the number of patents that ingestion has
\* committed to the database.
C18_PatentCountIsTotal == get_patent_count(db) = Cardinality(CommittedPatents)

\* the rows of the first strategy that completes without structural error;
\* none when all three fail
FirstCompleteStrategy(rows, errAt) ==
    IF errAt[1] = 0 \/ errAt[2] = 0 \/ errAt[3] = 0 THEN rows ELSE << >>

\* C19: the result of CSV parsing is exactly the rows of the first strategy
\* that completes: every row in the store is a row that some inner file of
\* the archive yields under its first complete strategy.
C19_FirstCompleteStrategyWins ==
    \A t \in PatentTables : \A i \in 1..Len(db[t]) :
        \E k \in 1..Len(archive) :
            LET f == archive[k]
                kind == determine_file_type(f.name)
                won == FirstCompleteStrategy(f.rows, f.errAt)
            IN /\ kind # "unknown"
               /\ TableOf(kind) = t
               /\ \E j \in 1..Len(won) :
                     db[t][i] = IF kind = "main" THEN MainRow(won[j]) ELSE ChildRow(won[j])

\* kinds whose token is a substring of the lower-cased name
MatchingKinds(name) ==
    {k \in Kinds : Contains(LowerName(name), "pt_" \o k)}

\* tables a step has changed
ChangedTables == {t \in PatentTables : db'[t] # db[t]}

\* C20: each inner file is routed by the case-insensitive match of its name
\* against the seven tokens: a CSV file whose name holds a token is handed to
\* a save call, a committed call writes all its records to the table of a
\* matching kind and no step writes to another table; the archive of
\* PT_Main_2024.csv and PT_Claim_2024.csv, one row each for CA1234567, yields
\* on its first pass at most the one parent row and the one claim row.
C20_RoutedToOneKind ==
    /\ [][ (pc = "inner" /\ fi \in 1..Len(archive) /\ fi' = fi + 1) =>
             LET f == archive[fi]
                 parsed_data == parse_csv_data(f.rows, f.errAt)
             IN /\ Cardinality(ChangedTables) <= 1
                /\ \A t \in ChangedTables : \E k \in MatchingKinds(f.name) : t = TableOf(k)
                /\ (IsCsvFile(f.name) /\ MatchingKinds(f.name) # {} /\ parsed_data # << >>)
                      => calls' = calls + 1
                /\ (calls' = calls + 1 /\ lastCall'.cause = "none")
                      => \E k \in MatchingKinds(f.name) :
                            db' = ApplyAll(db, TableOf(k), parsed_data) ]_vars
    /\ []( (archive = PlainArchive /\ runNo <= 1) =>
              /\ db[MainTable] \in {<< >>, << MainRow(Raw(CA1, "1", "t1")) >>}
              /\ db["patent_claims"] \in {<< >>, << ChildRow(Raw(CA1, "1", "t1")) >>}
              /\ \A t \in ChildTables \ {"patent_claims"} : db[t] = << >> )

\* the first run over PT_Main_2024.csv and PT_Claim_2024.csv is complete:
\* one parent row and one claim row for CA1234567, the resource is marked
C20_Witness ==
    /\ archive = PlainArchive
    /\ runNo = 1
    /\ runlog[1].end = "completed"
    /\ file_cache[ZipUrl].processed
    /\ db[MainTable] = << MainRow(Raw(CA1, "1", "t1")) >>
    /\ db["patent_claims"] = << ChildRow(Raw(CA1, "1", "t1")) >>

\* C21: a resource whose url is marked processed when it is reached is
\* skipped entirely: the step downloads nothing, does not enter the inner-file
\* loop, makes no save call, writes no row and leaves cache rows and files
\* as they are.
C21_ProcessedSkippedEntirely ==
    [][ (/\ HasResource
         /\ CacheTableUsable(schema)
         /\ file_cache[Resource.url].present
         /\ file_cache[Resource.url].processed)
        => /\ downloads' = downloads
           /\ pc' # "inner"
           /\ calls' = calls
           /\ db' = db
           /\ file_cache' = file_cache
           /\ disk' = disk ]_vars

\* the second run skipped the archive that the first run had ingested and marked
C21_Witness ==
    /\ Len(runlog) = 2
    /\ runlog[1].ev[ZipUrl] = "downloaded"
    /\ runlog[2].ev[ZipUrl] = "skipped"
    /\ downloads[ZipUrl] = 1
    /\ TotalRows(db) > 0

\* patent numbers of the rows of a table
NumbersIn(rows) == {rows[i].patent_number : i \in 1..Len(rows)}

\* C25: the store never loses a patent: in each of the seven tables the set
\* of patent numbers present only grows.
C25_NeverSubtractive ==
    [][ \A t \in PatentTables : NumbersIn(db[t]) \subseteq NumbersIn(db'[t]) ]_vars

\* a later committed batch that held one row, of another patent, left the
\* row of the first patent in place
C25_Witness ==
    /\ calls = 2
    /\ lastCall.cause = "none"
    /\ lastCall.executed = 1
    /\ \E t \in ChildTables :
          /\ Len(db[t]) = 2
          /\ db[t][1].patent_number = CA1
          /\ db[t][2].patent_number = CA2

\* rows of the legacy table "patents"
LegacySaved(d) == IF "patents" \in DOMAIN d THEN Len(d["patents"]) ELSE 0

\* C26: the records the legacy extractor resolves (files of unknown kind and
\* flat resources) are saved by save_patents_to_db: after a completed run the
\* legacy table holds at least the records the run collected.
C26_LegacyRecordsSaved ==
    (runNo >= 1 /\ pc = "idle" /\ runlog[runNo].end = "completed")
        => LegacySaved(db) >= total_patents

\* C27: totalIngestedThisRun counts only the current run: it is 0 when a run
\* starts, whatever an earlier run left there.
C27_TotalOfThisRunOnly ==
    [][ \A t \in 1..Len(threads) :
          (threads[t] = "spawned" /\ threads'[t] = "fetching")
             => download_status'.total_downloaded = 0 ]_vars

\* C28: once a url is marked processed, no later call sets the flag back to
\* false or removes the row, a re-store of the same url included.
C28_ProcessedMonotonic ==
    [][ \A u \in Urls :
          (file_cache[u].present /\ file_cache[u].processed)
             => (file_cache'[u].present /\ file_cache'[u].processed) ]_vars

\* a step that downloads the payload of the current flat resource
FlatDownloadStep ==
    /\ HasResource
    /\ Resource.format # NULL
    /\ IsFlatResource(Resource)
    /\ downloads' # downloads

\* C22: the minimum-size rule has its boundary at 100 characters: a flat
\* payload that decodes to fewer than 100 characters is skipped without an
\* error and adds no record, and a payload of 100 characters or more is not
\* rejected for its size.
C22_SizeBoundaryAtMinChars ==
    [][ FlatDownloadStep =>
          LET outcome == runlog'[runNo].ev[Resource.url] IN
          /\ (payload'.len < MinChars) =>
                (outcome \in {"undecodable", "too_small"} /\ total_patents' = total_patents)
          /\ (payload'.stripped >= MinChars) => (outcome = "downloaded") ]_vars

\* C23: a politeness delay happens between any two consecutive downloads of
\* one run, ZIP or flat: a download is issued only when the delay has run
\* since the download before it.
C23_DelayBetweenDownloads ==
    [][ (downloads' # downloads) => ~sinceFetch ]_vars

\* the steps by which a run goes on by itself
RunProgress ==
    \/ ResourceMalformed
    \/ ResourceUnsupported
    \/ ZipBegin
    \/ InnerFileStep
    \/ ZipMark
    \/ FlatResource
    \/ FinishRun

\* C24: every network call of a run carries a timeout, so a run that has not
\* yet returned to idle can always take a further step of its own, whatever
\* the remote servers do: it never waits without limit.
C24_RunNeverWaitsForever == (pc # "idle") => ENABLED RunProgress

\* C29: every started background run eventually sets the flag active back to
\* false, so that a later start request is accepted: whenever active is true,
\* it is false again at some later time.
C29_ActiveEventuallyReset == download_status.active ~> ~download_status.active

\* C30: the flag active is true from the Started answer until the started run
\* has finished: whenever a run is executing, active is true.
C30_ActiveAccurate == (RunningThreads # {}) => download_status.active

=============================================================================
